---- MODULE Spec2Model ----
(***************************************************************************)
(* A model of scryfall_cache.ScryfallCache: the sqlite store (Card,        *)
(* Metadata, ScryfallResultCache tables), the constructor with its bulk    *)
(* update, and get_card with its three lookup paths and the URL-keyed      *)
(* response cache of _query_scryfall; get_local_image_path; and a second  *)
(* process that shares the store file.                                     *)
(***************************************************************************)
EXTENDS Integers, FiniteSets, Sequences, TLC

VARIABLES
    cards,      \* rows of the Card table
    urlcache,   \* rows of the ScryfallResultCache table
    metadata,   \* rows of the Metadata table
    nowSec,     \* the clock, in whole seconds: int(time.time())
    pc,         \* where the process is: "down" (no instance), "init", "update",
                \* "fetched", "cleared", "inserted" (inside the constructor), "ready"
    bulk_update_period,  \* self.bulk_update_period
    pending,    \* the bulk data response held by _bulk_update_database
    boot,       \* what the last constructor call did
    last,       \* what the last get_card call to return was given and gave
                \* back, when, and which process made it
    nboots, ncalls,
    inflight,   \* the get_card call each process is in the middle of
    layout,     \* the tables of the store file: "current" when they pass the
                \* check of generate_mapping, "other" when a column is missing
    user_data_dir,  \* self.app.user_data_dir
    files,      \* the image files that exist under the art_cache directories
    img         \* what the last get_local_image_path call was given and gave back

imgvars == <<user_data_dir, files, img>>

corevars == <<cards, urlcache, metadata, nowSec, pc, bulk_update_period,
              pending, boot, last, nboots, ncalls, inflight, layout>>

vars == <<corevars, imgvars>>

store == <<cards, urlcache, metadata>>

---------------------------------------------------------------------------
(* Bounds of the exploration. *)
MaxBoots == 2
MaxCalls == 2

---------------------------------------------------------------------------
(* Program constants. *)
ONE_DAY == 24 * 60 * 60
TWELVE_WEEKS == 12 * 7 * ONE_DAY
__version__ == "0.2.0"
BULK_DATA_LIST == "default_cards"

\* Python's None, for a str argument and for an int one.
None == "None"
NoMtgo == -1

---------------------------------------------------------------------------
(* Card documents as Scryfall serves them: the fields the program reads,  *)
(* and mtgo_foil_id, which the MTGO endpoint matches as well.              *)
Doc(id, name, mtgo_id, mtgo_foil_id) ==
    [id |-> id, name |-> name, mtgo_id |-> mtgo_id,
     mtgo_foil_id |-> mtgo_foil_id]

NoDoc == Doc("", "", NoMtgo, NoMtgo)

\* Three printings of the card "Bar", which share their MTGO ids.
CardX == Doc("x", "Bar", 1, 2)
CardY == Doc("y", "Bar", 1, 2)
CardW == Doc("w", "Bar", 1, 2)
Catalog == {CardX, CardY, CardW}

\* What callers ask for.
QNames == {"Bar", "bar"}
QIds == {"x"}
QMtgo == {1, 2}

Arg(name, scryfall_id, mtgo_id) ==
    [name |-> name, scryfall_id |-> scryfall_id, mtgo_id |-> mtgo_id]

\* The calls made: no keyword, one keyword, and several at once.
Args ==
    {Arg(None, None, NoMtgo)}
    \cup {Arg(n, None, NoMtgo) : n \in QNames}
    \cup {Arg(None, i, NoMtgo) : i \in QIds}
    \cup {Arg(None, None, m) : m \in QMtgo}
    \cup {Arg("bar", "x", NoMtgo), Arg(None, "x", 2), Arg("Bar", "x", 1)}

---------------------------------------------------------------------------
(* The request URLs. *)
\* str.format of an int
Decimal(n) == CASE n = 1 -> "1" [] n = 2 -> "2" [] OTHER -> "0"

\* urlencode({"exact": name}); the names asked for hold unreserved
\* characters only, which quote_plus leaves as they are.
urlencode(name) == "exact=" \o name

IdUrl(scryfall_id) == "https://api.scryfall.com/cards/" \o scryfall_id
NamedUrl(name) == "https://api.scryfall.com/cards/named?" \o urlencode(name)
MtgoUrl(mtgo_id) == "https://api.scryfall.com/cards/mtgo/" \o Decimal(mtgo_id)

(* The remote API.  /cards/:id serves the card of that id; /cards/named    *)
(* matches the exact name without regard to case; /cards/mtgo/:id matches  *)
(* a card's mtgo_id or its mtgo_foil_id.                                   *)
Fold(name) == IF name = "bar" THEN "Bar" ELSE name

ServedById(scryfall_id) == {d \in Catalog : d.id = scryfall_id}
ServedByName(name) == {d \in Catalog : Fold(d.name) = Fold(name)}
ServedByMtgo(mtgo_id) ==
    {d \in Catalog : d.mtgo_id = mtgo_id \/ d.mtgo_foil_id = mtgo_id}

\* The card documents the endpoint the call would ask can answer with.
Served(a) ==
    IF a.name # None THEN ServedByName(a.name)
    ELSE IF a.scryfall_id # None THEN ServedById(a.scryfall_id)
    ELSE IF a.mtgo_id # NoMtgo THEN ServedByMtgo(a.mtgo_id)
    ELSE {}

\* One session.get(url): the connection fails, the status is not 2xx, the
\* body is no JSON, or the body is a card document.  caught tells the two
\* builds apart: requests >= 2.27 raises a RequestException from
\* Response.json(), older releases raise a bare ValueError.
Outcome(kind, doc, caught) == [kind |-> kind, doc |-> doc, caught |-> caught]

Outcomes(a) ==
    { Outcome("conn_error", NoDoc, TRUE), Outcome("http_error", NoDoc, TRUE),
      Outcome("bad_json", NoDoc, TRUE), Outcome("bad_json", NoDoc, FALSE) }
    \cup { Outcome("ok", d, TRUE) : d \in Served(a) }

---------------------------------------------------------------------------
(* What a call gives back: a card dictionary, None, or an exception. *)
Ret(kind, doc, exc) == [kind |-> kind, doc |-> doc, exc |-> exc]
RetCard(d) == Ret("card", d, "")
RetNone == Ret("none", NoDoc, "")
RetRaise(e) == Ret("raise", NoDoc, e)

\* The Card row of a document (lines 282-287 and 339-344).
CardRow(card_data) ==
    [id |-> card_data.id, name |-> card_data.name,
     mtgo_id |-> card_data.mtgo_id, data |-> card_data]

\* The only element of a one-element set.
The(S) == CHOOSE e \in S : TRUE

---------------------------------------------------------------------------
(* _query_scryfall: the URL-keyed response cache in front of the API.      *)
(* Gives back the value returned or raised, the table afterwards, and what *)
(* the remote GET did: "none" when no GET was issued, else "failed" or     *)
(* "ok"; rdoc is the document in hand when it returns or raises.           *)
\* A variant of InWindow that still serves an entry exactly timeout old.
InWindow_inclusive(result, timeout, now) ==
    result # {} /\ The(result).timestamp + timeout >= now

\* result and result.timestamp + timeout > now (line 383)
InWindow(result, timeout, now) ==
    result # {} /\ The(result).timestamp + timeout > now

_query_scryfall(url, timeout, o) ==
    LET result == {r \in urlcache : r.url = url}
        now == nowSec
    IN  IF InWindow(result, timeout, now)
        THEN [ret |-> RetCard(The(result).data), urlcache |-> urlcache,
              remote |-> "none", rdoc |-> The(result).data]
        ELSE IF o.kind \in {"conn_error", "http_error"}
        THEN [ret |-> RetNone, urlcache |-> urlcache,
              remote |-> "failed", rdoc |-> NoDoc]
        ELSE IF o.kind = "bad_json"
        THEN [ret |-> IF o.caught THEN RetNone ELSE RetRaise("ValueError"),
              urlcache |-> urlcache, remote |-> "failed", rdoc |-> NoDoc]
        ELSE IF result # {}
        \* url is the primary key: the INSERT of a second row fails when the
        \* db_session commits, and that is no RequestException.
        THEN [ret |-> RetRaise("TransactionIntegrityError"),
              urlcache |-> urlcache, remote |-> "ok", rdoc |-> o.doc]
        ELSE [ret |-> RetCard(o.doc),
              urlcache |-> urlcache \cup
                  {[url |-> url, timestamp |-> now, data |-> o.doc]},
              remote |-> "ok", rdoc |-> o.doc]

\* A variant of _save_card whose row never reaches the table.
_save_card_dropped(cs, card_data) == [ok |-> TRUE, cards |-> cs]

\* A variant of _save_card that first deletes the rows of the same name.
_save_card_renamed(cs, card_data) ==
    IF \E c \in cs : c.id = card_data.id
    THEN [ok |-> FALSE, cards |-> cs]
    ELSE [ok |-> TRUE,
          cards |-> {c \in cs : c.name # card_data.name}
                        \cup {CardRow(card_data)}]

(* _save_card: INSERT of one Card row; id is the primary key. *)
_save_card(cs, card_data) ==
    IF \E c \in cs : c.id = card_data.id
    THEN [ok |-> FALSE, cards |-> cs]
    ELSE [ok |-> TRUE, cards |-> cs \cup {CardRow(card_data)}]

\* The tail the three lookups share: keep what the query gave and, when
\* save holds and a card came back, write it to the Card table.
WriteBack(q, save) ==
    IF q.ret.kind = "card" /\ save
    THEN LET s == _save_card(cards, q.ret.doc)
         IN  [ret |-> IF s.ok THEN q.ret
                      ELSE RetRaise("TransactionIntegrityError"),
              cards |-> s.cards, urlcache |-> q.urlcache,
              remote |-> q.remote, rdoc |-> q.rdoc]
    ELSE [ret |-> q.ret, cards |-> cards, urlcache |-> q.urlcache,
          remote |-> q.remote, rdoc |-> q.rdoc]

\* A row of the Card table settles the call.
Local(d) ==
    [ret |-> RetCard(d), cards |-> cards, urlcache |-> urlcache,
     remote |-> "none", rdoc |-> NoDoc]

\* A variant of _card_from_id that does not look at the Card table first.
_card_from_id_unchecked(scryfall_id, o) ==
    WriteBack(_query_scryfall(IdUrl(scryfall_id), ONE_DAY, o), TRUE)

_card_from_id(scryfall_id, o) ==
    LET result == {c \in cards : c.id = scryfall_id}
    IN  IF result # {}
        THEN Local(The(result).data)
        ELSE WriteBack(_query_scryfall(IdUrl(scryfall_id), ONE_DAY, o), TRUE)

\* A variant of _card_from_name that writes back whenever it asked the
\* remote, also when several rows matched.
_card_from_name_eager(name, o) ==
    LET cards_json == {c \in cards : c.name = name}
    IN  IF Cardinality(cards_json) = 1
        THEN Local(The(cards_json).data)
        ELSE WriteBack(_query_scryfall(NamedUrl(name), ONE_DAY, o), TRUE)

\* A variant of _card_from_name that returns a matching row whenever there
\* is one.
_card_from_name_first(name, o) ==
    LET cards_json == {c \in cards : c.name = name}
    IN  IF Cardinality(cards_json) >= 1
        THEN Local(The(cards_json).data)
        ELSE WriteBack(_query_scryfall(NamedUrl(name), ONE_DAY, o), TRUE)

_card_from_name(name, o) ==
    LET cards_json == {c \in cards : c.name = name}
    IN  IF Cardinality(cards_json) = 1
        THEN Local(The(cards_json).data)
        ELSE WriteBack(_query_scryfall(NamedUrl(name), ONE_DAY, o),
                       Cardinality(cards_json) = 0)

_card_from_mtgo_id(mtgo_id, o) ==
    LET cards_json == {c \in cards : c.mtgo_id = mtgo_id}
    IN  IF Cardinality(cards_json) = 1
        THEN Local(The(cards_json).data)
        ELSE WriteBack(_query_scryfall(MtgoUrl(mtgo_id), ONE_DAY, o),
                       Cardinality(cards_json) = 0)

\* A call that touches neither table nor the remote.
NoChange(ret) ==
    [ret |-> ret, cards |-> cards, urlcache |-> urlcache, remote |-> "none",
     rdoc |-> NoDoc]

\* A variant of Dispatch that returns None when no keyword is given.
Dispatch_lenient(a, o) ==
    IF a.name # None THEN _card_from_name(a.name, o)
    ELSE IF a.scryfall_id # None THEN _card_from_id(a.scryfall_id, o)
    ELSE IF a.mtgo_id # NoMtgo THEN _card_from_mtgo_id(a.mtgo_id, o)
    ELSE NoChange(RetNone)

\* A variant of Dispatch that looks at scryfall_id before name.
Dispatch_id_first(a, o) ==
    IF a.scryfall_id # None THEN _card_from_id(a.scryfall_id, o)
    ELSE IF a.name # None THEN _card_from_name(a.name, o)
    ELSE IF a.mtgo_id # NoMtgo THEN _card_from_mtgo_id(a.mtgo_id, o)
    ELSE NoChange(RetRaise("ScryfallCacheException"))

\* get_card's dispatch on its three keyword arguments.
Dispatch(a, o) ==
    IF a.name # None THEN _card_from_name(a.name, o)
    ELSE IF a.scryfall_id # None THEN _card_from_id(a.scryfall_id, o)
    ELSE IF a.mtgo_id # NoMtgo THEN _card_from_mtgo_id(a.mtgo_id, o)
    ELSE NoChange(RetRaise("ScryfallCacheException"))

NoCall ==
    [name |-> None, scryfall_id |-> None, mtgo_id |-> NoMtgo,
     ret |-> Ret("nocall", NoDoc, ""), remote |-> "none", rdoc |-> NoDoc,
     at |-> 0, by |-> ""]

\* get_card of the only process that uses the store: nothing runs between
\* the db_sessions of the call and the clock is read once, so the call is
\* one step.
get_card(a, o) ==
    /\ pc = "ready"
    /\ ncalls < MaxCalls
    /\ LET r == Dispatch(a, o)
       IN  /\ cards' = r.cards
           /\ urlcache' = r.urlcache
           /\ last' = [name |-> a.name, scryfall_id |-> a.scryfall_id,
                       mtgo_id |-> a.mtgo_id, ret |-> r.ret,
                       remote |-> r.remote, rdoc |-> r.rdoc, at |-> nowSec,
                       by |-> "A"]
    /\ ncalls' = ncalls + 1
    /\ UNCHANGED <<metadata, nowSec, pc, bulk_update_period, pending, boot, nboots>>
    /\ UNCHANGED <<imgvars, inflight, layout>>

(* get_card step by step, for a store that two processes share.  Process   *)
(* "A" is the one that pc follows; process "B" holds an instance of its    *)
(* own over the same file.  Each db_session of a call is one step, and     *)
(* the other process may run between any two of them.  No step of a call   *)
(* touches the store between the GET and the INSERT of the response, so    *)
(* the two are one step.                                                   *)
Procs == {"A", "B"}

\* The call a process is in the middle of: its arguments, whether the Card
\* lookup found no row (the condition for _save_card), the rows the URL
\* lookup of line 379 gave, the clock read at line 381, and the document in
\* hand with where it came from.
NoFlight ==
    [phase |-> "idle", name |-> None, scryfall_id |-> None, mtgo_id |-> NoMtgo,
     save |-> FALSE, result |-> {}, now |-> 0, remote |-> "none",
     doc |-> NoDoc]

Idle == [p \in Procs |-> NoFlight]

\* The URL the call asks _query_scryfall for (lines 187, 228, 268).
Url(f) ==
    IF f.name # None THEN NamedUrl(f.name)
    ELSE IF f.scryfall_id # None THEN IdUrl(f.scryfall_id)
    ELSE MtgoUrl(f.mtgo_id)

\* The rows the first db_session of the lookup method reads (lines 178, 210,
\* 249): by name first, then by id, then by MTGO id.
cards_json(a) ==
    IF a.name # None THEN {c \in cards : c.name = a.name}
    ELSE IF a.scryfall_id # None THEN {c \in cards : c.id = a.scryfall_id}
    ELSE {c \in cards : c.mtgo_id = a.mtgo_id}

\* get_card returns or raises: the call is over.
Return(p, f, ret, remote, rdoc) ==
    /\ last' = [name |-> f.name, scryfall_id |-> f.scryfall_id,
                mtgo_id |-> f.mtgo_id, ret |-> ret, remote |-> remote,
                rdoc |-> rdoc, at |-> nowSec, by |-> p]
    /\ inflight' = [inflight EXCEPT ![p] = NoFlight]

\* The call goes on to its next db_session.
Goto(p, f) ==
    /\ inflight' = [inflight EXCEPT ![p] = f]
    /\ last' = last

\* get_card up to the end of the first db_session: the dispatch, and the
\* lookup in the Card table, which settles the call when one row matches.
lookup_card(p, a) ==
    /\ inflight[p].phase = "idle"
    /\ p = "A" => pc = "ready"
    /\ ncalls < MaxCalls
    /\ ncalls' = ncalls + 1
    /\ LET f == [NoFlight EXCEPT !.name = a.name,
                                 !.scryfall_id = a.scryfall_id,
                                 !.mtgo_id = a.mtgo_id]
           found == cards_json(a)
       IN  IF a.name = None /\ a.scryfall_id = None /\ a.mtgo_id = NoMtgo
           THEN Return(p, f, RetRaise("ScryfallCacheException"), "none", NoDoc)
           ELSE IF Cardinality(found) = 1
           THEN Return(p, f, RetCard(The(found).data), "none", NoDoc)
           ELSE Goto(p, [f EXCEPT !.phase = "query",
                                  !.save = (Cardinality(found) = 0)])
    /\ UNCHANGED <<cards, urlcache, metadata, nowSec, pc, bulk_update_period,
                   pending, boot, nboots, layout>>
    /\ UNCHANGED imgvars

\* The first db_session of _query_scryfall (lines 378-379): the lookup of
\* the URL.
lookup_url(p) ==
    /\ inflight[p].phase = "query"
    /\ LET f == inflight[p]
           result == {r \in urlcache : r.url = Url(f)}
       IN  Goto(p, [f EXCEPT !.phase = "clock", !.result = result])
    /\ UNCHANGED <<cards, urlcache, metadata, nowSec, pc, bulk_update_period,
                   pending, boot, nboots, ncalls, layout>>
    /\ UNCHANGED imgvars

\* The one reading of the clock and the window test on the row found
\* (lines 381-385).  A row in the window is returned to the lookup method,
\* which goes on to _save_card when the Card lookup had found no row.
read_clock(p) ==
    /\ inflight[p].phase = "clock"
    /\ LET f == inflight[p]
           result == f.result
           now == nowSec
       IN  IF InWindow(result, ONE_DAY, now)
           THEN IF f.save
                THEN Goto(p, [f EXCEPT !.phase = "save", !.result = {},
                                       !.doc = The(result).data])
                ELSE Return(p, f, RetCard(The(result).data), "none",
                            The(result).data)
           ELSE Goto(p, [f EXCEPT !.phase = "get", !.result = {},
                                  !.now = now])
    /\ UNCHANGED <<cards, urlcache, metadata, nowSec, pc, bulk_update_period,
                   pending, boot, nboots, ncalls, layout>>
    /\ UNCHANGED imgvars

\* The rest of _query_scryfall (lines 388-404): the GET, and the db_session
\* that stores the response under the clock read before the GET.  url is
\* the primary key: the commit fails when the table holds a row of the URL
\* by then, whoever stored it.
fetch_url(p, o) ==
    /\ inflight[p].phase = "get"
    /\ LET f == inflight[p]
           url == Url(f)
       IN  IF o.kind \in {"conn_error", "http_error"}
           THEN /\ Return(p, f, RetNone, "failed", NoDoc)
                /\ urlcache' = urlcache
           ELSE IF o.kind = "bad_json"
           THEN /\ Return(p, f, IF o.caught THEN RetNone
                                ELSE RetRaise("ValueError"), "failed", NoDoc)
                /\ urlcache' = urlcache
           ELSE IF \E r \in urlcache : r.url = url
           THEN /\ Return(p, f, RetRaise("TransactionIntegrityError"), "ok",
                          o.doc)
                /\ urlcache' = urlcache
           ELSE /\ urlcache' = urlcache \cup
                        {[url |-> url, timestamp |-> f.now, data |-> o.doc]}
                /\ IF f.save
                   THEN Goto(p, [f EXCEPT !.phase = "save", !.now = 0,
                                          !.remote = "ok", !.doc = o.doc])
                   ELSE Return(p, f, RetCard(o.doc), "ok", o.doc)
    /\ UNCHANGED <<cards, metadata, nowSec, pc, bulk_update_period,
                   pending, boot, nboots, ncalls, layout>>
    /\ UNCHANGED imgvars

\* _save_card, the last db_session of a call that found no row, and the
\* return of get_card.
save_card(p) ==
    /\ inflight[p].phase = "save"
    /\ LET f == inflight[p]
           s == _save_card(cards, f.doc)
       IN  /\ cards' = s.cards
           /\ Return(p, f, IF s.ok THEN RetCard(f.doc)
                           ELSE RetRaise("TransactionIntegrityError"),
                     f.remote, f.doc)
    /\ UNCHANGED <<urlcache, metadata, nowSec, pc, bulk_update_period,
                   pending, boot, nboots, ncalls, layout>>
    /\ UNCHANGED imgvars

---------------------------------------------------------------------------
(* The constructor: __init__ runs _check_database, which may run           *)
(* _bulk_update_database.  Each db_session is one step.                    *)

\* orm.select(m for m in Metadata).first(): the row of the lowest id
FirstMetadata(ms) == CHOOSE m \in ms : \A n \in ms : m.id <= n.id

\* A variant of AgedOut with the comparison the other way round.
AgedOut_flipped(lastupdate, period, frac) ==
    lastupdate + period > nowSec

\* A variant of AgedOut that also ages out at the very instant
\* lastupdate + period.
AgedOut_inclusive(lastupdate, period, frac) ==
    lastupdate + period <= nowSec

\* metadata.lastupdate + self.bulk_update_period < time.time(), an int
\* against a float: frac tells whether the clock is past the whole second.
AgedOut(lastupdate, period, frac) ==
    \/ lastupdate + period < nowSec
    \/ lastupdate + period = nowSec /\ frac

\* The periods a caller configures: none, the default, and one
\* longer than the clock has run.
StartSec == TWELVE_WEEKS + ONE_DAY
Periods == {0, TWELVE_WEEKS, 2 * StartSec}

\* GET /bulk-data: the request fails, the body is no JSON, or it is a list
\* of objects whose types are given here.
ManifestOutcomes ==
    { [kind |-> "conn_error", types |-> {}], [kind |-> "http_error", types |-> {}],
      [kind |-> "bad_json", types |-> {}],
      [kind |-> "ok", types |-> {"oracle_cards"}],
      [kind |-> "ok", types |-> {"oracle_cards", BULK_DATA_LIST}] }

\* The bulk files looked at, each a JSON list: no card, one printing, two
\* printings, and a list that holds one id twice.
Datasets == { <<>>, <<CardY>>, <<CardX, CardY>>, <<CardX, CardX>> }

\* GET permalink_uri: the request fails, or a body arrives that is parsed
\* only after the cards have been cleared.
DatasetOutcomes ==
    { [kind |-> "conn_error", json_ok |-> FALSE, docs |-> <<>>],
      [kind |-> "http_error", json_ok |-> FALSE, docs |-> <<>>],
      [kind |-> "ok", json_ok |-> FALSE, docs |-> <<>>] }
    \cup { [kind |-> "ok", json_ok |-> TRUE, docs |-> ds] : ds \in Datasets }

NoPending == [kind |-> "none", json_ok |-> FALSE, docs |-> <<>>]

\* The lastupdate of a Metadata table: 0 while the row is yet to be made.
LastUpdateOf(ms) == IF ms = {} THEN 0 ELSE FirstMetadata(ms).lastupdate

\* What the store file held when the constructor opened it; kept until
\* _check_database has run.
NoOpened == [cards |-> {}, lastupdate |-> 0]

\* What the constructor did: what it found in the file, whether the clock
\* _check_database read was past the whole second, whether it asked for the
\* bulk data, how that ended, and what the two requests of
\* _bulk_update_database met (dataset is "none" while the second request has
\* not been issued).
NoBoot ==
    [opened |-> NoOpened, subsec |-> FALSE, requested |-> FALSE, ret |-> "none",
     manifest |-> "none", types |-> {}, dataset |-> "none"]

\* The manifest names the dataset, so the dataset request is issued.
Listed(m) == m.kind = "ok" /\ BULK_DATA_LIST \in m.types

\* self.bulk_update_period once nothing reads it any more.
NoPeriod == -1

\* __init__ up to the call of _check_database.  When generate_mapping
\* fails on the tables it finds, every table is dropped with its rows and
\* made anew (lines 102-114).
__init__(period) ==
    /\ pc = "down"
    /\ nboots < MaxBoots
    /\ bulk_update_period' = period
    /\ IF layout = "current"
       THEN UNCHANGED <<cards, urlcache, metadata>>
       ELSE cards' = {} /\ urlcache' = {} /\ metadata' = {}
    /\ layout' = "current"
    /\ pc' = "init"
    /\ boot' = [NoBoot EXCEPT !.opened =
                    [cards |-> cards, lastupdate |-> LastUpdateOf(metadata)]]
    /\ last' = NoCall
    /\ nboots' = nboots + 1
    /\ UNCHANGED <<nowSec, pending, ncalls>>
    /\ UNCHANGED <<imgvars, inflight>>

\* A variant of _check_database that makes a Metadata row without looking
\* for one.
_check_database_blind(frac) ==
    /\ pc = "init"
    /\ LET created == metadata \cup
                          {[id |-> Cardinality(metadata) + 1, lastupdate |-> 0,
                            version |-> __version__]}
           lastupdate == FirstMetadata(created).lastupdate
       IN  /\ metadata' = created
           /\ IF AgedOut(lastupdate, bulk_update_period, frac)
              THEN /\ pc' = "update"
                   /\ boot' = [boot EXCEPT !.opened = NoOpened,
                                           !.subsec = frac]
              ELSE /\ pc' = "ready"
                   /\ boot' = [boot EXCEPT !.opened = NoOpened,
                                           !.subsec = frac, !.ret = "ok"]
    /\ bulk_update_period' = NoPeriod
    /\ UNCHANGED <<cards, urlcache, nowSec, pending, last, nboots, ncalls>>
    /\ UNCHANGED <<imgvars, inflight, layout>>

\* _check_database is the only reader of self.bulk_update_period, so the
\* field is dropped from the state when it returns.
_check_database(frac) ==
    /\ pc = "init"
    /\ LET created == IF metadata = {}
                      THEN {[id |-> 1, lastupdate |-> 0, version |-> __version__]}
                      ELSE metadata
           lastupdate == FirstMetadata(created).lastupdate
       IN  /\ metadata' = created
           /\ IF AgedOut(lastupdate, bulk_update_period, frac)
              THEN /\ pc' = "update"
                   /\ boot' = [boot EXCEPT !.opened = NoOpened,
                                           !.subsec = frac]
              ELSE /\ pc' = "ready"
                   /\ boot' = [boot EXCEPT !.opened = NoOpened,
                                           !.subsec = frac, !.ret = "ok"]
    /\ bulk_update_period' = NoPeriod
    /\ UNCHANGED <<cards, urlcache, nowSec, pending, last, nboots, ncalls>>
    /\ UNCHANGED <<imgvars, inflight, layout>>

\* A variant of BulkFetchError that goes on when the manifest does not list
\* the dataset or a request fails, as a lookup does.
BulkFetchError_swallowed(m, ds) ==
    IF m.kind = "bad_json" THEN "ValueError" ELSE ""

\* The requests of _bulk_update_database up to the clear (lines 311-328):
\* the exception raised, or "" when both responses are in hand.
BulkFetchError(m, ds) ==
    IF m.kind \in {"conn_error", "http_error"} THEN "RequestException"
    ELSE IF m.kind = "bad_json" THEN "ValueError"
    ELSE IF BULK_DATA_LIST \notin m.types THEN "ScryfallCacheException"
    ELSE IF ds.kind \in {"conn_error", "http_error"} THEN "RequestException"
    ELSE ""

\* A variant of _bulk_update_database that clears the Card table as soon as
\* the manifest names the dataset, before it asks for the dataset.
_bulk_update_database_eager(m, ds) ==
    /\ pc = "update"
    /\ LET err == BulkFetchError(m, ds)
           met == [opened |-> NoOpened,
                   subsec |-> boot.subsec, requested |-> TRUE, ret |-> err,
                   manifest |-> m.kind,
                   types |-> m.types,
                   dataset |-> IF Listed(m) THEN ds.kind ELSE "none"]
       IN  IF err # ""
           THEN /\ pc' = "down"
                /\ pending' = NoPending
                /\ boot' = met
           ELSE /\ pc' = "fetched"
                /\ pending' = ds
                /\ boot' = [met EXCEPT !.ret = "running"]
    /\ cards' = IF Listed(m) THEN {} ELSE cards
    /\ UNCHANGED <<urlcache, metadata, nowSec, bulk_update_period, last,
                   nboots, ncalls>>
    /\ UNCHANGED <<imgvars, inflight, layout>>

\* An exception leaves the constructor, and no instance exists.
_bulk_update_database(m, ds) ==
    /\ pc = "update"
    /\ LET err == BulkFetchError(m, ds)
           met == [opened |-> NoOpened,
                   subsec |-> boot.subsec, requested |-> TRUE, ret |-> err,
                   manifest |-> m.kind,
                   types |-> m.types,
                   dataset |-> IF Listed(m) THEN ds.kind ELSE "none"]
       IN  IF err # ""
           THEN /\ pc' = "down"
                /\ pending' = NoPending
                /\ boot' = met
           ELSE /\ pc' = "fetched"
                /\ pending' = ds
                /\ boot' = [met EXCEPT !.ret = "running"]
    /\ UNCHANGED <<cards, urlcache, metadata, nowSec, bulk_update_period, last,
                   nboots, ncalls>>
    /\ UNCHANGED <<imgvars, inflight, layout>>

\* A variant of _bulk_clear_database that deletes nothing.
_bulk_clear_database_skipped ==
    /\ pc = "fetched"
    /\ pc' = "cleared"
    /\ UNCHANGED <<bulk_update_period, cards, urlcache, metadata, nowSec, pending, boot, last, nboots, ncalls>>
    /\ UNCHANGED <<imgvars, inflight, layout>>

\* A variant of _bulk_clear_database that stamps the Metadata row when the
\* rebuild starts.
_bulk_clear_database_stamped ==
    /\ pc = "fetched"
    /\ cards' = {}
    /\ metadata' = {[m EXCEPT !.lastupdate = nowSec] : m \in metadata}
    /\ pc' = "cleared"
    /\ UNCHANGED <<bulk_update_period, urlcache, nowSec, pending, boot, last, nboots, ncalls>>
    /\ UNCHANGED <<imgvars, inflight, layout>>

\* A variant of _bulk_clear_database that clears and repopulates in one
\* db_session.
_bulk_clear_database_atomic ==
    /\ pc = "fetched"
    /\ pending.json_ok
    /\ cards' = {CardRow(pending.docs[i]) : i \in DOMAIN pending.docs}
    /\ pc' = "inserted"
    /\ UNCHANGED <<bulk_update_period, urlcache, metadata, nowSec, pending, boot, last, nboots, ncalls>>
    /\ UNCHANGED <<imgvars, inflight, layout>>

_bulk_clear_database ==
    /\ pc = "fetched"
    /\ cards' = {}
    /\ pc' = "cleared"
    /\ UNCHANGED <<bulk_update_period, urlcache, metadata, nowSec, pending, boot, last, nboots, ncalls>>
    /\ UNCHANGED <<imgvars, inflight, layout>>

\* The insert loop of _bulk_update_database, one db_session: the body is
\* parsed, every document becomes a Card, and the commit stores all of
\* them or, when two documents share an id, none.
\* The response stays in hand until _bulk_update_database returns.
\* A row that another process stored since the clear makes the commit fail.
BulkInsertError(p) ==
    IF ~p.json_ok THEN "ValueError"
    ELSE IF \E i, j \in DOMAIN p.docs : i # j /\ p.docs[i].id = p.docs[j].id
    THEN "CacheIndexError"
    ELSE IF \E i \in DOMAIN p.docs : \E c \in cards : c.id = p.docs[i].id
    THEN "TransactionIntegrityError"
    ELSE ""

_bulk_insert ==
    /\ pc = "cleared"
    /\ LET err == BulkInsertError(pending)
       IN  IF err # ""
           THEN /\ cards' = cards
                /\ pc' = "down"
                /\ boot' = [boot EXCEPT !.ret = err]
                /\ pending' = NoPending
           ELSE /\ cards' = cards \cup {CardRow(pending.docs[i]) : i \in DOMAIN pending.docs}
                /\ pc' = "inserted"
                /\ boot' = boot
                /\ pending' = pending
    /\ UNCHANGED <<bulk_update_period, urlcache, metadata, nowSec, last, nboots, ncalls>>
    /\ UNCHANGED <<imgvars, inflight, layout>>

_update_metadata ==
    /\ pc = "inserted"
    /\ LET m == FirstMetadata(metadata)
       IN  metadata' = (metadata \ {m}) \cup {[m EXCEPT !.lastupdate = nowSec]}
    /\ pc' = "ready"
    /\ boot' = [boot EXCEPT !.ret = "ok"]
    /\ pending' = NoPending
    /\ UNCHANGED <<bulk_update_period, cards, urlcache, nowSec, last, nboots, ncalls>>
    /\ UNCHANGED <<imgvars, inflight, layout>>

\* The process ends; the store file stays.
Exit ==
    /\ pc = "ready"
    /\ inflight["A"].phase = "idle"
    /\ pc' = "down"
    /\ pending' = NoPending
    /\ UNCHANGED <<bulk_update_period, cards, urlcache, metadata, nowSec, boot, last, nboots, ncalls>>
    /\ UNCHANGED <<imgvars, inflight, layout>>

\* The clock moves on, to one of the instants looked at: the start, and a
\* day less a second, a day, and a day and a second after it.
Instants ==
    {StartSec + k : k \in {0, ONE_DAY - 1, ONE_DAY, ONE_DAY + 1}}

\* Time passes whatever the processes are doing.
Tick(t) ==
    /\ t > nowSec
    /\ nowSec' = t
    /\ UNCHANGED <<cards, urlcache, metadata, pc, bulk_update_period, pending, boot, last, nboots, ncalls>>
    /\ UNCHANGED <<imgvars, inflight, layout>>

---------------------------------------------------------------------------
(* get_local_image_path: where the image of a card in an art format is     *)
(* kept, and the download that puts it there.                              *)

\* appdirs' user_data_dir: without and with a version of the application.
DefaultDir == "/home/u/.local/share/scryfall_cache"
AppDirs == {DefaultDir, "/home/u/.local/share/scryfall_cache/1.0"}

\* os.path.join of two parts, the second of which is not absolute.
join(a, b) == a \o "/" \o b

\* The art formats asked for.
Formats == {"png", "art_crop", "large"}

\* card_data["image_uris"]: the key is absent, or maps formats to URIs.
NoImages == [present |-> FALSE, uris |-> [f \in {} |-> ""]]
Images(fs, host) ==
    [present |-> TRUE,
     uris |-> [f \in fs |-> "https://img.scryfall.com/" \o host \o "/" \o f]]

ImageMaps ==
    {NoImages, Images({"png"}, "a"), Images(Formats, "a"),
     Images({"png", "art_crop"}, "b")}

\* The cards get_card handed out, as far as get_local_image_path reads them.
ImageCards ==
    {[id |-> i, name |-> "Bar", image_uris |-> u] :
        i \in {"x", "y"}, u \in ImageMaps}

\* A variant of Extension that names every file jpg.
Extension_jpg(art_format) == "jpg"

\* As per the API, everything is a JPG except PNG (lines 442-446).
Extension(art_format) == IF art_format = "png" THEN "png" ELSE "jpg"

\* local_path (lines 437 and 448-451).
LocalPath(dir, id, art_format) ==
    join(join(join(dir, "art_cache"), art_format),
         id \o "." \o Extension(art_format))

\* _download_scryfall_to_file: the connection fails, the status is not 2xx,
\* or the file is written and moved into place.  The temporary sibling it
\* writes is never looked at again.
DownloadOutcomes == {"ok", "conn_error", "http_error"}

ImgRet(kind, path, exc) == [kind |-> kind, path |-> path, exc |-> exc]

NoImage ==
    [called |-> FALSE, id |-> "", art_format |-> "", listed |-> FALSE,
     existed |-> FALSE, download |-> "none", ret |-> ImgRet("none", "", "")]

get_local_image_path(card, art_format, dl) ==
    /\ pc = "ready"
    /\ LET card_data == card
           present == card_data.image_uris.present
           listed == present /\ art_format \in DOMAIN card_data.image_uris.uris
           local_path == LocalPath(user_data_dir, card.id, art_format)
           existed == local_path \in files
           fetch == listed /\ ~existed
       IN  /\ files' = IF fetch /\ dl = "ok" THEN files \cup {local_path}
                        ELSE files
           /\ img' = [called |-> TRUE, id |-> card.id,
                      art_format |-> art_format, listed |-> listed,
                      existed |-> listed /\ existed,
                      download |-> IF fetch THEN dl ELSE "none",
                      ret |-> IF ~present
                              THEN ImgRet("raise", "", "No images found")
                              ELSE IF ~listed
                              THEN ImgRet("raise", "", "Art format not found")
                              ELSE IF fetch /\ dl # "ok"
                              THEN ImgRet("raise", "", "RequestException")
                              ELSE ImgRet("path", local_path, "")]
    /\ UNCHANGED user_data_dir
    /\ UNCHANGED corevars

---------------------------------------------------------------------------
\* A store file that a release with another layout of the Metadata table
\* (no version column) left: a card, the response it came with, and the
\* time of a bulk update.
OldFile ==
    [cards |-> {CardRow(CardX)},
     urlcache |-> {[url |-> IdUrl("x"), timestamp |-> StartSec, data |-> CardX]},
     metadata |-> {[id |-> 1, lastupdate |-> StartSec]}]

\* No process, and a store file that does not exist yet or is an old one.
Init ==
    /\ \/ /\ cards = {}
          /\ urlcache = {}
          /\ metadata = {}
          /\ layout = "current"
       \/ /\ cards = OldFile.cards
          /\ urlcache = OldFile.urlcache
          /\ metadata = OldFile.metadata
          /\ layout = "other"
    /\ inflight = Idle
    /\ nowSec = StartSec
    /\ pc = "down"
    /\ bulk_update_period = NoPeriod
    /\ pending = NoPending
    /\ boot = NoBoot
    /\ last = NoCall
    /\ nboots = 0
    /\ ncalls = 0
    /\ user_data_dir = DefaultDir
    /\ files = {}
    /\ img = NoImage

Next ==
    \/ \E p \in Periods : __init__(p)
    \/ \E f \in BOOLEAN : _check_database(f)
    \/ \E m \in ManifestOutcomes, ds \in DatasetOutcomes :
           _bulk_update_database(m, ds)
    \/ _bulk_clear_database
    \/ _bulk_insert
    \/ _update_metadata
    \/ \E a \in Args : \E o \in Outcomes(a) : get_card(a, o)
    \/ Exit
    \/ \E t \in Instants : Tick(t)

Spec == Init /\ [][Next]_vars

(* Two processes over one store file: one holds an instance whose         *)
(* constructor refreshed the store with two printings at the start, and    *)
(* goes on looking cards up while the other one constructs its own.        *)
InitShared ==
    /\ cards = {CardRow(CardX), CardRow(CardY)}
    /\ urlcache = {}
    /\ inflight = Idle
    /\ layout = "current"
    /\ metadata = {[id |-> 1, lastupdate |-> StartSec, version |-> __version__]}
    /\ nowSec = StartSec
    /\ pc = "down"
    /\ bulk_update_period = NoPeriod
    /\ pending = NoPending
    /\ boot = NoBoot
    /\ last = NoCall
    /\ nboots = 1
    /\ ncalls = 0
    /\ user_data_dir = DefaultDir
    /\ files = {}
    /\ img = NoImage

\* The lookups the two processes make: by id, by name and by an MTGO id
\* that no row holds but the remote knows.
SharedArgs == {Arg(None, "x", NoMtgo), Arg("Bar", None, NoMtgo), Arg(None, None, 2)}

\* The constructor of process A, and the lookups of both processes step
\* by step.
NextShared ==
    \/ \E p \in Periods : __init__(p)
    \/ \E f \in BOOLEAN : _check_database(f)
    \/ \E m \in ManifestOutcomes, ds \in DatasetOutcomes :
           _bulk_update_database(m, ds)
    \/ _bulk_clear_database
    \/ _bulk_insert
    \/ _update_metadata
    \/ \E p \in Procs : \E a \in SharedArgs : lookup_card(p, a)
    \/ \E p \in Procs : lookup_url(p)
    \/ \E p \in Procs : read_clock(p)
    \/ \E p \in Procs : \E o \in Outcomes(inflight[p]) : fetch_url(p, o)
    \/ \E p \in Procs : save_card(p)
    \/ Exit
    \/ \E t \in Instants : Tick(t)

SpecShared == InitShared /\ [][NextShared]_vars

(* The image paths on their own: an instance built over a new store with a *)
(* period that asks for no bulk update, some user_data_dir, no image file. *)
InitImage ==
    /\ cards = {}
    /\ inflight = Idle
    /\ layout = "current"
    /\ urlcache = {}
    /\ metadata = {[id |-> 1, lastupdate |-> 0, version |-> __version__]}
    /\ nowSec = StartSec
    /\ pc = "ready"
    /\ bulk_update_period = NoPeriod
    /\ pending = NoPending
    /\ boot = [NoBoot EXCEPT !.ret = "ok"]
    /\ last = NoCall
    /\ nboots = 1
    /\ ncalls = 0
    /\ user_data_dir \in AppDirs
    /\ files = {}
    /\ img = NoImage

NextImage ==
    \E card \in ImageCards, art_format \in Formats, dl \in DownloadOutcomes :
        get_local_image_path(card, art_format, dl)

SpecImage == InitImage /\ [][NextImage]_vars

---------------------------------------------------------------------------
(* Vocabulary of the properties.  last is the latest get_card call of the *)
(* running instance; in a get_card step last' is the call being made and  *)
(* the unprimed variables are the store it finds.                          *)
Called == ncalls' = ncalls + 1

ByName(l) == l.name # None
ById(l) == l.name = None /\ l.scryfall_id # None
ByMtgo(l) == l.name = None /\ l.scryfall_id = None /\ l.mtgo_id # NoMtgo

Selected(l) ==
    (IF l.name # None THEN 1 ELSE 0) + (IF l.scryfall_id # None THEN 1 ELSE 0)
    + (IF l.mtgo_id # NoMtgo THEN 1 ELSE 0)

Fetches(l) == IF l.remote = "none" THEN 0 ELSE 1

WithId(cs, id) == {c \in cs : c.id = id}
WithName(cs, name) == {c \in cs : c.name = name}
WithMtgo(cs, mtgo_id) == {c \in cs : c.mtgo_id = mtgo_id}

\* The call is by name or by MTGO id, and n rows of the store match its key.
KeyMatches(l, n) ==
    \/ ByName(l) /\ Cardinality(WithName(cards, l.name)) = n
    \/ ByMtgo(l) /\ Cardinality(WithMtgo(cards, l.mtgo_id)) = n

Ambiguous(l) ==
    \/ ByName(l) /\ Cardinality(WithName(cards, l.name)) >= 2
    \/ ByMtgo(l) /\ Cardinality(WithMtgo(cards, l.mtgo_id)) >= 2

\* The store does not settle the call, which goes on to _query_scryfall.
Inconclusive(l) ==
    \/ ById(l) /\ WithId(cards, l.scryfall_id) = {}
    \/ ByName(l) /\ Cardinality(WithName(cards, l.name)) # 1
    \/ ByMtgo(l) /\ Cardinality(WithMtgo(cards, l.mtgo_id)) # 1

UrlAsked(l) ==
    IF ByName(l) THEN NamedUrl(l.name)
    ELSE IF ById(l) THEN IdUrl(l.scryfall_id)
    ELSE MtgoUrl(l.mtgo_id)

Entries(url) == {r \in urlcache : r.url = url}

---------------------------------------------------------------------------
C2_WriteBackAlways ==
    [][(Called /\ KeyMatches(last', 0) /\ last'.rdoc # NoDoc)
        => /\ last'.ret = RetCard(last'.rdoc)
           /\ Cardinality(WithId(cards', last'.rdoc.id)) = 1]_vars

\* C3 (as stated): a call by id X that finds no row of id X and whose
\* remote GET succeeds leaves exactly one row of id X and returns the
\* document, and the next call by id X returns the same document.
C3_WriteBackById ==
    [][/\ (Called /\ ById(last') /\ WithId(cards, last'.scryfall_id) = {}
              /\ last'.remote = "ok")
          => /\ Cardinality(WithId(cards', last'.scryfall_id)) = 1
             /\ last'.ret = RetCard(last'.rdoc)
       /\ (Called /\ ById(last) /\ last.remote = "ok" /\ ById(last')
              /\ last'.scryfall_id = last.scryfall_id)
          => last'.ret = RetCard(last.rdoc)]_vars

\* C4 (as stated): a call whose remote GET fails (connection error, status
\* that is not 2xx, body that is no JSON) returns None, raises nothing and
\* leaves the Card and ScryfallResultCache tables as they were.
C4_SoftFailure ==
    [][(Called /\ last'.remote = "failed")
        => /\ last'.ret = RetNone
           /\ cards' = cards
           /\ urlcache' = urlcache]_vars

\* C5: a call by name or by MTGO id that finds two or more matching rows
\* leaves the Card table exactly as it was, whatever the remote answers.
C5_NoInsertWhenAmbiguous ==
    [][(Called /\ Ambiguous(last')) => cards' = cards]_vars

\* An ambiguous call by name got from the remote a printing the store does
\* not hold, returned it, and the store still does not hold it.
C5_Witness ==
    /\ ByName(last) /\ Cardinality(WithName(cards, last.name)) >= 2
    /\ last.remote = "ok" /\ last.ret.kind = "card"
    /\ WithId(cards, last.ret.doc.id) = {}

\* C6 (as stated): with two rows of the queried name in the store, every
\* get_card(name=...) call issues a remote GET.
C6_AlwaysFetches ==
    [][(Called /\ ByName(last')
           /\ Cardinality(WithName(cards, last'.name)) = 2)
        => last'.remote # "none"]_vars

\* C6 (amended): with two rows of the queried name in the store, a
\* get_card(name=...) call issues a remote GET unless the response cache
\* holds an entry for the URL that is less than a day old, and then it
\* returns that entry's payload.
C6_FetchesUnlessCached ==
    [][(Called /\ ByName(last')
           /\ Cardinality(WithName(cards, last'.name)) = 2)
        => LET fresh == {r \in Entries(NamedUrl(last'.name)) :
                            r.timestamp + ONE_DAY > nowSec}
           IN  IF fresh = {}
               THEN last'.remote # "none"
               ELSE /\ last'.remote = "none"
                    /\ \E r \in fresh : last'.ret = RetCard(r.data)]_vars

\* The second of two ambiguous calls by name was answered from the
\* response the first one stored.
C6_Witness ==
    /\ ncalls = 2 /\ ByName(last)
    /\ Cardinality(WithName(cards, last.name)) = 2
    /\ last.remote = "none" /\ last.ret.kind = "card"
    /\ \E r \in Entries(NamedUrl(last.name)) : r.data = last.ret.doc

\* C7: a lookup that reaches _query_scryfall is served without a remote
\* GET exactly when the entry of its URL has timestamp + ONE_DAY > now; an
\* entry of timestamp now - ONE_DAY - 1 is fetched again, one of timestamp
\* now - ONE_DAY + 1 is not.
C7_TtlBoundary ==
    [][(Called /\ Inconclusive(last'))
        => LET result == Entries(UrlAsked(last'))
           IN  /\ (last'.remote = "none")
                    <=> (\E r \in result : r.timestamp + ONE_DAY > nowSec)
               /\ \A r \in result :
                    /\ r.timestamp = nowSec - ONE_DAY - 1 => last'.remote # "none"
                    /\ r.timestamp = nowSec - ONE_DAY + 1 => last'.remote = "none"]_vars

\* A call found an entry one second past its day and asked the remote
\* again; the remote failed, so the old entry is still there.
C7_Witness ==
    /\ last.remote = "failed"
    /\ \E r \in Entries(UrlAsked(last)) : r.timestamp = last.at - ONE_DAY - 1

\* C8 (as stated): a constructor that finds no Metadata row, or one with
\* lastupdate = 0, runs the bulk update whatever bulk_update_period is.
C8_RefreshForEveryPeriod ==
    [][(pc = "init" /\ pc' # "init"
           /\ (metadata = {} \/ FirstMetadata(metadata).lastupdate = 0))
        => pc' = "update"]_vars

\* C8 (amended): a constructor that finds no Metadata row, or one with
\* lastupdate = 0, runs the bulk update whenever bulk_update_period is
\* less than the current time in seconds, and every get_card call is
\* served by an instance whose bulk update, if it ran, has completed.
C8_RefreshWhenPeriodElapsed ==
    [][/\ (pc = "init" /\ pc' # "init"
              /\ (metadata = {} \/ FirstMetadata(metadata).lastupdate = 0)
              /\ bulk_update_period < nowSec)
          => pc' = "update"
       /\ Called => (pc = "ready" /\ (boot.requested => boot.ret = "ok"))]_vars

\* The first constructor over a new store ran the bulk update to its end,
\* and then a lookup was served.
C8_Witness ==
    /\ nboots = 1 /\ ncalls = 1
    /\ boot.requested /\ boot.ret = "ok"
    /\ FirstMetadata(metadata).lastupdate > 0

\* C9: get_card without any of name, scryfall_id, mtgo_id raises
\* ScryfallCacheException, issues no remote GET and changes no table.
C9_NoSelector ==
    [][(Called /\ Selected(last') = 0)
        => /\ last'.ret = RetRaise("ScryfallCacheException")
           /\ last'.remote = "none"
           /\ store' = store]_vars

\* A call without any keyword raised ScryfallCacheException.
C9_Witness ==
    /\ Selected(last) = 0
    /\ last.ret = RetRaise("ScryfallCacheException")

\* C10 (as stated): get_card with two or more of name, scryfall_id,
\* mtgo_id raises ScryfallCacheException.
C10_RejectsSeveral ==
    [][(Called /\ Selected(last') >= 2)
        => last'.ret = RetRaise("ScryfallCacheException")]_vars

\* The first given of name, scryfall_id, mtgo_id, alone.
Primary(l) ==
    IF l.name # None THEN Arg(l.name, None, NoMtgo)
    ELSE IF l.scryfall_id # None THEN Arg(None, l.scryfall_id, NoMtgo)
    ELSE Arg(None, None, l.mtgo_id)

\* C10 (amended): get_card with two or more of name, scryfall_id, mtgo_id
\* does not raise ScryfallCacheException for that: it does what the call
\* with only the first given of name, scryfall_id, mtgo_id does.
C10_FirstSelectorWins ==
    [][(Called /\ Selected(last') >= 2)
        => /\ last'.ret.exc # "ScryfallCacheException"
           /\ \E o \in Outcomes(Primary(last')) :
                  Dispatch(Primary(last'), o) =
                      [ret |-> last'.ret, cards |-> cards',
                       urlcache |-> urlcache', remote |-> last'.remote,
                       rdoc |-> last'.rdoc]]_vars

\* A call with both scryfall_id and mtgo_id was answered for its scryfall_id.
C10_Witness ==
    /\ Selected(last) >= 2
    /\ ById(last) /\ last.ret.kind = "card"
    /\ last.ret.doc.id = last.scryfall_id

---------------------------------------------------------------------------
\* The exceptions that leave the constructor from _bulk_update_database.
BulkExceptions ==
    {"RequestException", "ValueError", "ScryfallCacheException", "CacheIndexError"}

\* C11: when the manifest request fails, the manifest does not list the
\* configured dataset type, or the dataset request fails, an exception
\* leaves the constructor: no instance exists afterwards, and every get_card
\* call is served by an instance whose constructor returned.
C11_HardFailure ==
    [][/\ (pc = "update" /\ pc' # "update"
              /\ (boot'.manifest # "ok" \/ BULK_DATA_LIST \notin boot'.types
                     \/ boot'.dataset \in {"conn_error", "http_error"}))
          => (pc' = "down" /\ boot'.ret \in BulkExceptions)
       /\ (boot.ret \in BulkExceptions /\ pc = "down")
          => (~Called /\ pc' \in {"down", "init"})]_vars

\* The manifest came without the configured dataset type: the constructor
\* raised ScryfallCacheException and no lookup was served.
C11_Witness ==
    /\ pc = "down" /\ ncalls = 0
    /\ boot.manifest = "ok" /\ BULK_DATA_LIST \notin boot.types
    /\ boot.ret = "ScryfallCacheException"

\* The Card rows of a list of documents.
Rows(docs) == {CardRow(docs[i]) : i \in DOMAIN docs}

\* C12: when a bulk refresh completes, the Card table holds exactly the
\* rows of the documents of the dataset fetched, each with its id, name and
\* mtgo_id, and nothing else; lastupdate is the time of completion.
C12_FullReplacement ==
    [][(pc = "inserted" /\ pc' = "ready")
        => /\ cards' = Rows(pending.docs)
           /\ \A i \in DOMAIN pending.docs :
                  \E c \in cards' :
                      /\ c.id = pending.docs[i].id
                      /\ c.name = pending.docs[i].name
                      /\ c.mtgo_id = pending.docs[i].mtgo_id
                      /\ c.data = pending.docs[i]
           /\ FirstMetadata(metadata').lastupdate = nowSec']_vars

\* A second constructor completed a bulk refresh at the current time; the
\* card of id x, fetched and stored by an earlier lookup, is not in the
\* dataset and is gone, and the cards of the dataset are there.
C12_Witness ==
    /\ pc = "ready" /\ nboots = 2
    /\ boot.requested /\ boot.ret = "ok"
    /\ FirstMetadata(metadata).lastupdate = nowSec
    /\ cards # {}
    /\ Entries(IdUrl("x")) # {} /\ WithId(cards, "x") = {}

\* The rows of the Card table that match the key of the call.
Matching(l) ==
    IF ByName(l) THEN WithName(cards, l.name)
    ELSE IF ById(l) THEN WithId(cards, l.scryfall_id)
    ELSE IF ByMtgo(l) THEN WithMtgo(cards, l.mtgo_id)
    ELSE {}

\* The store settles the call: a row has the id asked for, or exactly one
\* row has the name or the MTGO id asked for.
Conclusive(l) ==
    \/ ById(l) /\ Matching(l) # {}
    \/ (ByName(l) \/ ByMtgo(l)) /\ Cardinality(Matching(l)) = 1

\* C13: a call the store settles returns the payload of the matching row,
\* issues no remote GET and changes no table (the ScryfallResultCache table
\* included), whenever it is made.
C13_LocalHit ==
    [][(Called /\ Conclusive(last'))
        => /\ \E c \in Matching(last') : last'.ret = RetCard(c.data)
           /\ last'.remote = "none"
           /\ store' = store]_vars

\* A day or more after the start a call by MTGO id was answered from the
\* only matching row, while the response cache holds no entry for its URL.
C13_Witness ==
    /\ ByMtgo(last) /\ Cardinality(WithMtgo(cards, last.mtgo_id)) = 1
    /\ last.ret.kind = "card" /\ last.remote = "none"
    /\ last.at >= StartSec + ONE_DAY
    /\ Entries(UrlAsked(last)) = {}

\* s ends with t.
EndsWith(s, t) ==
    Len(s) >= Len(t) /\ SubSeq(s, Len(s) - Len(t) + 1, Len(s)) = t

\* C14: for a card whose image_uris holds the format asked for,
\* get_local_image_path returns, once the file is there, a path that ends in
\* <format>/<card id>.<ext>, with ext png exactly for the format png and jpg
\* for every other format; two calls for the same card id and format return
\* the same path whatever else the cards hold.
C14_ImagePath ==
    [][(img'.called /\ img'.listed)
        => /\ (img'.ret.kind = "path")
                <=> (img'.existed \/ img'.download = "ok")
           /\ img'.ret.kind = "path"
                => /\ EndsWith(img'.ret.path,
                               "/" \o img'.art_format \o "/" \o img'.id \o "."
                                   \o (IF img'.art_format = "png"
                                       THEN "png" ELSE "jpg"))
                   /\ EndsWith(img'.ret.path, ".png")
                          <=> img'.art_format = "png"
           /\ (img.ret.kind = "path" /\ img'.ret.kind = "path"
                  /\ img'.id = img.id /\ img'.art_format = img.art_format)
                => img'.ret.path = img.ret.path]_vars

\* The art_crop image of a card was asked for when its file was already
\* there, and its path came back.
C14_Witness ==
    /\ img.called /\ img.listed /\ img.existed
    /\ img.art_format = "art_crop"
    /\ img.ret.kind = "path"
    /\ EndsWith(img.ret.path, "/art_crop/" \o img.id \o ".jpg")
    /\ img.ret.path \in files

\* C15 (as stated): a lookup that reaches _query_scryfall, finds an entry
\* of its URL that is a day old or more and gets a document from the remote
\* returns that document, and afterwards the table holds exactly one entry
\* of the URL, with the current time and the new document; no URL ever has
\* two entries.
C15_Overwrite ==
    [][/\ (Called /\ Inconclusive(last') /\ last'.remote = "ok"
              /\ Entries(UrlAsked(last')) # {}
              /\ \A r \in Entries(UrlAsked(last')) :
                     r.timestamp + ONE_DAY <= nowSec)
          => /\ last'.ret = RetCard(last'.rdoc)
             /\ {r \in urlcache' : r.url = UrlAsked(last')} =
                    {[url |-> UrlAsked(last'), timestamp |-> nowSec,
                      data |-> last'.rdoc]}
       /\ \A r1, r2 \in urlcache' : r1.url = r2.url => r1 = r2]_vars

\* The timestamp the staleness check reads: 0 when it creates the row.
LastUpdate == IF metadata = {} THEN 0 ELSE FirstMetadata(metadata).lastupdate

\* C17 (as stated): the constructor runs the bulk refresh exactly when the
\* clock is past lastupdate + bulk_update_period (strictly: at that very
\* instant it does not), for the lastupdate of the store it is given; when
\* it is not, the constructor returns an instance without any remote
\* request, and the Card table and lastupdate are as it found them.
C17_RefreshTrigger ==
    [][(pc = "init" /\ pc' # "init")
        => LET found == boot.opened.lastupdate
               due == \/ nowSec > found + bulk_update_period
                      \/ /\ nowSec = found + bulk_update_period
                         /\ boot'.subsec
           IN  /\ (pc' = "update") <=> due
               /\ ~due => /\ pc' = "ready" /\ ~boot'.requested
                           /\ cards' = boot.opened.cards
                           /\ \A m \in metadata' : m.lastupdate = found]_vars

\* C17 (amended): the constructor leaves a store whose tables pass the
\* check as it is and empties the three tables of one whose tables do not;
\* it then runs the bulk refresh exactly when the clock is past lastupdate
\* + bulk_update_period (strictly) for the lastupdate of the store so
\* opened, 0 when there is no Metadata row; when it is not, the constructor
\* returns an instance without any remote request, and the Card table and
\* lastupdate stay as they were after the opening.
C17_RefreshTriggerOnceOpened ==
    [][/\ (pc = "down" /\ pc' = "init")
          => IF layout = "current" THEN store' = store
             ELSE cards' = {} /\ urlcache' = {} /\ metadata' = {}
       /\ (pc = "init" /\ pc' # "init")
          => LET due == \/ nowSec > LastUpdate + bulk_update_period
                        \/ /\ nowSec = LastUpdate + bulk_update_period
                           /\ boot'.subsec
             IN  /\ (pc' = "update") <=> due
                 /\ ~due => /\ pc' = "ready" /\ ~boot'.requested
                             /\ cards' = cards
                             /\ \A m \in metadata' :
                                    m.lastupdate = LastUpdate]_vars

\* A second constructor found the refresh of the first one recent enough
\* and returned without asking for the bulk data.
C17_Witness ==
    /\ pc = "ready" /\ nboots = 2 /\ ncalls = 0
    /\ ~boot.requested /\ boot.ret = "ok"
    /\ FirstMetadata(metadata).lastupdate > 0
    /\ cards # {}

\* The constructor opens a store whose tables fail the check, and drops
\* them with their rows.
DropsTables == pc = "down" /\ pc' = "init" /\ layout # "current"

\* C18 (as stated): lastupdate changes only in the last step of a bulk
\* refresh, after the insert of the dataset has committed, and then becomes
\* the current time; no get_card call and no refresh that fails, before or
\* after the clear, changes it.
C18_StampAfterResync ==
    [][/\ LastUpdateOf(metadata') # LastUpdateOf(metadata)
          => /\ pc = "inserted" /\ pc' = "ready"
             /\ boot.requested /\ boot'.ret = "ok"
             /\ cards = Rows(pending.docs) /\ cards' = cards
             /\ LastUpdateOf(metadata') = nowSec
       /\ (Called \/ (boot'.requested /\ pc' = "down"))
          => LastUpdateOf(metadata') = LastUpdateOf(metadata)]_vars

\* C18 (amended): lastupdate changes only in the last step of a bulk
\* refresh, after the insert of the dataset has committed, when it becomes
\* the current time, and when a constructor drops the tables of a store
\* that fails the check, when it becomes 0; no get_card call and no refresh
\* that fails, before or after the clear, changes it.
C18_StampAfterResyncOrDrop ==
    [][/\ LastUpdateOf(metadata') # LastUpdateOf(metadata)
          => \/ /\ pc = "inserted" /\ pc' = "ready"
                /\ boot.requested /\ boot'.ret = "ok"
                /\ cards = Rows(pending.docs) /\ cards' = cards
                /\ LastUpdateOf(metadata') = nowSec
             \/ DropsTables /\ metadata' = {}
       /\ (Called \/ (boot'.requested /\ pc' = "down"))
          => LastUpdateOf(metadata') = LastUpdateOf(metadata)]_vars

\* A refresh failed after the clear, on a dataset that holds one id twice:
\* the Card table is empty and lastupdate is still 0.
C18_Witness ==
    /\ pc = "down" /\ boot.requested /\ boot.ret = "CacheIndexError"
    /\ cards = {} /\ metadata # {} /\ LastUpdateOf(metadata) = 0

\* C19: the Metadata table never holds more than one row, and holds
\* exactly one once a constructor has run its staleness check.
C19_MetadataSingleton ==
    /\ Cardinality(metadata) <= 1
    /\ (nboots >= 1 /\ pc # "init") => Cardinality(metadata) = 1

\* Two constructors, a bulk refresh and a lookup have run over the store,
\* and it holds one Metadata row.
C19_Witness ==
    /\ nboots = 2 /\ ncalls >= 1 /\ pc = "ready"
    /\ LastUpdateOf(metadata) > 0
    /\ Cardinality(metadata) = 1

\* C20 (as stated): a get_card call leaves every Card row as it is (id,
\* name, mtgo_id and payload) and adds at most a row of a new id; rows go
\* away only in the clear of a bulk refresh.
C20_LookupsOnlyAdd ==
    [][/\ Called
          => /\ cards \subseteq cards'
             /\ Cardinality(cards' \ cards) <= 1
             /\ \A c \in cards' \ cards : WithId(cards, c.id) = {}
       /\ ~(cards \subseteq cards')
          => (pc = "fetched" /\ pc' = "cleared" /\ cards' = {})]_vars

\* C20 (amended): a get_card call leaves every Card row as it is (id, name,
\* mtgo_id and payload) and adds at most a row of a new id; rows go away
\* only in the clear of a bulk refresh and when a constructor drops the
\* tables of a store that fails the check.
C20_LookupsOnlyAddRows ==
    [][/\ Called
          => /\ cards \subseteq cards'
             /\ Cardinality(cards' \ cards) <= 1
             /\ \A c \in cards' \ cards : WithId(cards, c.id) = {}
       /\ ~(cards \subseteq cards')
          => \/ pc = "fetched" /\ pc' = "cleared" /\ cards' = {}
             \/ DropsTables /\ cards' = {}]_vars

\* Without any bulk refresh, two lookups each added a row: the second one
\* a printing of the name already there.
C20_Witness ==
    /\ nboots = 1 /\ ~boot.requested /\ ncalls = 2
    /\ Cardinality(cards) = 2
    /\ last.remote = "ok" /\ last.ret.kind = "card"
    /\ Cardinality(WithName(cards, last.ret.doc.name)) = 2

\* C16: the clear of a bulk refresh commits on its own: the step after the
\* dataset request leaves a Card table with no row while the dataset is
\* not stored yet, and a lookup that another process starts in that state
\* is not answered from the Card table but goes on to _query_scryfall.
C16_EmptyWindow ==
    [][/\ (pc = "fetched" /\ pc' # "fetched")
          => (pc' = "cleared" /\ cards' = {} /\ pending' = pending)
       /\ (Called /\ pc = "cleared" /\ cards = {})
          => /\ inflight["B"].phase = "idle"
             /\ inflight'["B"].phase = "query"
             /\ last' = last]_vars

\* Between the clear and the repopulate the other process asked for the
\* card of id x, which the store held before the refresh and the dataset
\* holds: the table had no row, the remote failed, and nothing came back.
C16_Witness ==
    /\ pc = "cleared" /\ cards = {} /\ nboots = 2
    /\ last.by = "B" /\ ById(last) /\ last.scryfall_id = "x"
    /\ last.remote = "failed" /\ last.ret = RetNone
    /\ pending.json_ok
    /\ \E i \in DOMAIN pending.docs : pending.docs[i].id = "x"

\* The steps of _bulk_update_database.
Refreshing == pc \in {"update", "fetched", "cleared", "inserted"}

\* C21: a bulk refresh clears the Card table only when the manifest request
\* has succeeded, the manifest names the dataset and the dataset request
\* has succeeded; a refresh that fails at one of these leaves the Card
\* table, the ScryfallResultCache table and the Metadata table as they were
\* when it started.
C21_ClearAfterFetches ==
    [][/\ (Refreshing /\ ((pc # "cleared" /\ pc' = "cleared")
                            \/ ~(cards \subseteq cards')))
          => /\ pc = "fetched"
             /\ boot.manifest = "ok" /\ BULK_DATA_LIST \in boot.types
             /\ boot.dataset = "ok"
       /\ (pc = "update" /\ pc' = "down") => store' = store
       /\ (pc = "update" /\ pc' # "update")
          => (cards' = cards /\ urlcache' = urlcache
                /\ LastUpdateOf(metadata') = LastUpdateOf(metadata))]_vars

\* A second constructor asked for the bulk data and the dataset request
\* came back with an error status: the cards and the timestamp of the first
\* refresh and the response a lookup stored are still there.
C21_Witness ==
    /\ pc = "down" /\ nboots = 2
    /\ boot.manifest = "ok" /\ boot.dataset = "http_error"
    /\ boot.ret = "RequestException"
    /\ cards # {} /\ urlcache # {}
    /\ LastUpdateOf(metadata) > 0

\* C22 (as stated): the repopulate step stores the whole dataset or
\* nothing.  While a refresh runs, and whatever another process that shares
\* the store does, the Card table is the set the refresh found, then
\* empty, then the complete dataset, and never a part of the dataset; when
\* the body is no JSON or an insert fails, no document is stored and the
\* table stays empty.
C22_RepopulateAtomic ==
    [][/\ (pc = "update" /\ pc' = "fetched") => cards' = cards
       /\ (pc = "fetched" /\ pc' # "fetched") => cards' = {}
       /\ (pc = "cleared" /\ pc' # "cleared")
          => \/ /\ pc' = "inserted"
                /\ cards' = Rows(pending.docs)
                /\ Cardinality(cards') = Len(pending.docs)
             \/ /\ pc' = "down"
                /\ cards' = {}
                /\ boot'.ret \in {"ValueError", "CacheIndexError"}
                /\ \/ ~pending.json_ok
                   \/ Cardinality(Rows(pending.docs)) < Len(pending.docs)
       /\ (pc' \in {"cleared", "inserted"})
          => \/ cards' = {}
             \/ pending'.json_ok /\ cards' = Rows(pending'.docs)]_vars

====
